---- MODULE Spec2Model ----
(***************************************************************************)
(* Kantarion::Geometry: the Point value type (Point.h) and                 *)
(* Segment::closestDistance (Segment.h).                                   *)
(*                                                                         *)
(* Scalar_t (double) is modelled by exact values: a rational n/d in lowest *)
(* terms, or one of the IEEE specials NaN, +Inf, -Inf.  Every input the    *)
(* model draws is a double whose sums, differences and products in the     *)
(* operations below are exactly representable, so the rational result is   *)
(* the result the double arithmetic produces (quotients and square roots   *)
(* are kept exact instead of rounded).                                     *)
(***************************************************************************)
EXTENDS Integers, Sequences, FiniteSets, TLC

VARIABLES
    pc,       \* position of the calling program: "start" or "done"
    seg1,     \* p_Segment1: [m_Start, m_End], integer grid coordinates
    seg2,     \* p_Segment2
    scale,    \* the grid: a coordinate k stands for the double k * 2^(-scale)
    dist,     \* value returned by Segment::closestDistance
    pa,       \* *this of Point::cross
    pb,       \* p_Other of Point::cross
    cr,       \* value returned by Point::cross
    ea,       \* left operand of Point::operator== and operator!=
    eb,       \* right operand
    eq,       \* value returned by operator==
    ne,       \* value returned by operator!=
    input,    \* the text behind p_Stream, as tokens, and its state at the call
    is,       \* p_Stream: [pos, fail]
    pt        \* p_Point, the target of operator>>

segVars == <<seg1, seg2, scale, dist>>

crossVars == <<pa, pb, cr>>

eqVars == <<ea, eb, eq, ne>>

readVars == <<input, is, pt>>

vars == <<pc, segVars, crossVars, eqVars, readVars>>

----------------------------------------------------------------------------
(* Bounds of the model *)

\* the x coordinates of segment 2's end points range over 0..MaxCoord
MaxCoord == 2
\* the fine grid has spacing 2^(-FineScale)
FineScale == 13
\* the coordinates of the operands of cross range over -MaxCross..MaxCross
MaxCross == 1
\* the operands of == lie within MaxUlp epsilons of 0 and of 1
MaxUlp == 1
\* the text read holds at most MaxTokens tokens
MaxTokens == 3
\* the numbers in the text range over 1..MaxNum
MaxNum == 2
\* the line parameters sampled on and just beyond a segment are the multiples
\* of 1/SampleDen from -1/SampleDen to 1 + 1/SampleDen
SampleDen == 2

(* Program constants *)

\* sc_Precision = numeric_limits<double>::epsilon() = 2^(-PrecisionBits)
PrecisionBits == 52

----------------------------------------------------------------------------
(* Scalar_t *)

Abs(i) == IF i < 0 THEN -i ELSE i

Sign(i) == IF i < 0 THEN -1 ELSE IF i > 0 THEN 1 ELSE 0

RECURSIVE Gcd(_, _)
Gcd(m, n) == IF n = 0 THEN m ELSE Gcd(n, m % n)

\* the finite value n/d (d # 0), in lowest terms with a positive denominator
Fin(n, d) ==
    LET g == Gcd(Abs(n), Abs(d))
        s == IF d < 0 THEN -1 ELSE 1
    IN  [k |-> "fin", n |-> s * (n \div g), d |-> Abs(d) \div g]

NaN == [k |-> "nan", n |-> 0, d |-> 1]

\* +Inf (sgn = 1) or -Inf (sgn = -1)
Inf(sgn) == [k |-> "inf", n |-> sgn, d |-> 1]

Zero == Fin(0, 1)

\* a + b
AddS(a, b) ==
    IF a.k = "nan" \/ b.k = "nan" THEN NaN
    ELSE IF a.k = "inf" /\ b.k = "inf" THEN (IF a.n = b.n THEN a ELSE NaN)
    ELSE IF a.k = "inf" THEN a
    ELSE IF b.k = "inf" THEN b
    ELSE LET m == (a.d \div Gcd(a.d, b.d)) * b.d   \* common denominator
         IN  Fin(a.n * (m \div a.d) + b.n * (m \div b.d), m)

\* -a
NegS(a) == IF a.k = "nan" THEN NaN ELSE [a EXCEPT !.n = -a.n]

\* a - b
SubS(a, b) == AddS(a, NegS(b))

\* a * b
MulS(a, b) ==
    IF a.k = "nan" \/ b.k = "nan" THEN NaN
    ELSE IF a.k = "inf" \/ b.k = "inf"
         THEN (IF a.n = 0 \/ b.n = 0 THEN NaN ELSE Inf(Sign(a.n) * Sign(b.n)))
    ELSE Fin(a.n * b.n, a.d * b.d)

\* a / b (IEEE: x/0 is an infinity, 0/0 and Inf/Inf are NaN)
DivS(a, b) ==
    IF a.k = "nan" \/ b.k = "nan" THEN NaN
    ELSE IF a.k = "inf" THEN (IF b.k = "inf" THEN NaN
                              ELSE Inf(a.n * (IF b.n < 0 THEN -1 ELSE 1)))
    ELSE IF b.k = "inf" THEN Zero
    ELSE IF b.n = 0 THEN (IF a.n = 0 THEN NaN ELSE Inf(Sign(a.n)))
    ELSE Fin(a.n * b.d, a.d * b.n)

\* a < b (false when either is NaN)
LtS(a, b) ==
    /\ a.k # "nan"
    /\ b.k # "nan"
    /\ IF a.k = "inf" THEN a.n < 0 /\ ~(b.k = "inf" /\ b.n < 0)
       ELSE IF b.k = "inf" THEN b.n > 0
       ELSE a.n * b.d < b.n * a.d

\* a <= b (false when either is NaN)
LeS(a, b) == a.k # "nan" /\ b.k # "nan" /\ ~LtS(b, a)

\* std::fabs
FabsS(a) == IF a.k = "nan" THEN NaN ELSE [a EXCEPT !.n = Abs(a.n)]

\* std::sqrt.  The root of a rational is not rational in general: the result
\* is kept as its radicand.  sqrt is strictly increasing on the non-negative
\* numbers, so two results are equal, or ordered, exactly as their radicands,
\* a result is 0 iff its radicand is 0, and NaN iff its radicand is NaN or
\* negative.
SqrtS(a) == [radicand |-> IF LtS(a, Zero) THEN NaN ELSE a]

\* std::clamp without the upper limit
Clamp_NoUpper(v, lo, hi) == IF LtS(v, lo) THEN lo ELSE v

\* std::clamp(v, lo, hi) == (v < lo) ? lo : (hi < v) ? hi : v
Clamp(v, lo, hi) == IF LtS(v, lo) THEN lo ELSE IF LtS(hi, v) THEN hi ELSE v

sc_ParametricL == Zero

sc_ParametricH == Fin(1, 1)

\* std::fabs(x) > sc_Precision, for x a product of four coordinates of the
\* grid 2^(-q): x is held in units of 2^(-4q).  On the unit grid every
\* non-zero finite x of the model exceeds 2^(-52) (its denominator is below
\* 2^31).
ExceedsPrecision(x, q) ==
    IF 4 * q >= PrecisionBits
    THEN LtS(Fin(2 ^ (4 * q - PrecisionBits), 1), FabsS(x))
    ELSE x.k = "inf" \/ (x.k = "fin" /\ x.n # 0)

----------------------------------------------------------------------------
(* Point *)

\* Point(p_X, p_Y, p_Z)
Point(x, y, z) == [m_X |-> x, m_Y |-> y, m_Z |-> z]

\* a Point of the grid, as a Point of Scalar_t coordinates
Lift(p) == Point(Fin(p.m_X, 1), Fin(p.m_Y, 1), Fin(p.m_Z, 1))

\* Point::operator+
PAdd(p, o) == Point(AddS(p.m_X, o.m_X), AddS(p.m_Y, o.m_Y), AddS(p.m_Z, o.m_Z))

\* Point::operator-
PSub(p, o) == Point(SubS(p.m_X, o.m_X), SubS(p.m_Y, o.m_Y), SubS(p.m_Z, o.m_Z))

\* Point::operator*(Scalar_t)
PMul(p, s) == Point(MulS(p.m_X, s), MulS(p.m_Y, s), MulS(p.m_Z, s))

\* Point::dot
Dot(p, o) ==
    AddS(AddS(MulS(p.m_X, o.m_X), MulS(p.m_Y, o.m_Y)), MulS(p.m_Z, o.m_Z))

\* Point::distance with the z term left out
Distance_NoZ(p, o) ==
    LET l_dX == SubS(o.m_X, p.m_X)
        l_dY == SubS(o.m_Y, p.m_Y)
    IN  SqrtS(AddS(MulS(l_dX, l_dX), MulS(l_dY, l_dY)))

\* Point::distance
Distance(p, o) ==
    LET l_dX == SubS(o.m_X, p.m_X)
        l_dY == SubS(o.m_Y, p.m_Y)
        l_dZ == SubS(o.m_Z, p.m_Z)
    IN  SqrtS(AddS(AddS(MulS(l_dX, l_dX), MulS(l_dY, l_dY)), MulS(l_dZ, l_dZ)))

\* Point::cross with the operands of the y coordinate exchanged
Cross_LeftHanded(p, o) ==
    Point(SubS(MulS(p.m_Y, o.m_Z), MulS(p.m_Z, o.m_Y)),
          SubS(MulS(p.m_X, o.m_Z), MulS(p.m_Z, o.m_X)),
          SubS(MulS(p.m_X, o.m_Y), MulS(p.m_Y, o.m_X)))

\* Point::cross
Cross(p, o) ==
    Point(SubS(MulS(p.m_Y, o.m_Z), MulS(p.m_Z, o.m_Y)),
          SubS(MulS(p.m_Z, o.m_X), MulS(p.m_X, o.m_Z)),
          SubS(MulS(p.m_X, o.m_Y), MulS(p.m_Y, o.m_X)))

----------------------------------------------------------------------------
(* Point equality.  The operands are doubles near 0 and near 1, where the   *)
(* tolerance decides: a value is w + u*eps + v*eps^2 with eps = sc_Precision *)
(* = 2^-52 and small integers w, u, v, written [w, u, v].  Such values are   *)
(* ordered lexicographically (|u| and |v| are far below 2^52), their sums    *)
(* and differences are componentwise, and eps * [w, u, 0] = [0, w, u]; all   *)
(* of these are exact in double arithmetic for the operands drawn.           *)

Ulp(w, u, v) == [w |-> w, u |-> u, v |-> v]

\* a < b
LtU(a, b) ==
    \/ a.w < b.w
    \/ a.w = b.w /\ a.u < b.u
    \/ a.w = b.w /\ a.u = b.u /\ a.v < b.v

\* a <= b
LeU(a, b) == ~LtU(b, a)

\* a - b
SubU(a, b) == Ulp(a.w - b.w, a.u - b.u, a.v - b.v)

\* std::fabs
FabsU(a) == IF LtU(a, Ulp(0, 0, 0)) THEN Ulp(-a.w, -a.u, -a.v) ELSE a

\* std::max(a, b) == (a < b) ? b : a
MaxU(a, b) == IF LtU(a, b) THEN b ELSE a

\* sc_Precision * a, for a = [w, u, 0]
TimesPrecision(a) == Ulp(0, a.w, a.u)

\* nearlyEqual with an absolute tolerance: fabs(a - b) <= sc_Precision
nearlyEqual_Absolute(p_ValueA, p_ValueB) ==
    LeU(FabsU(SubU(p_ValueA, p_ValueB)), Ulp(0, 1, 0))

\* Point::nearlyEqual with p_Epsilon = sc_Precision
nearlyEqual(p_ValueA, p_ValueB) ==
    LeU(FabsU(SubU(p_ValueA, p_ValueB)),
        TimesPrecision(MaxU(FabsU(p_ValueA), FabsU(p_ValueB))))

\* Point::operator==
Equals(p, p_Other) ==
    /\ nearlyEqual(p.m_X, p_Other.m_X)
    /\ nearlyEqual(p.m_Y, p_Other.m_Y)
    /\ nearlyEqual(p.m_Z, p_Other.m_Z)

\* Point::operator!=
NotEquals(p, p_Other) == ~Equals(p, p_Other)

----------------------------------------------------------------------------
(* Deserialization.  The text behind the stream is a sequence of             *)
(* whitespace-separated tokens: a number a double holds ("num"), text that   *)
(* is no number ("junk"), or a number too large in magnitude for a double,   *)
(* such as 1e999 ("huge").                                                   *)

\* numeric_limits<double>::max() (sgn = 1) or its negation (sgn = -1)
DblMax(sgn) == [k |-> "max", n |-> sgn, d |-> 1]

\* p_Stream >> v, a formatted extraction of one double from stream state st
\* (C++17): nothing is read or stored if the stream has failed or is at its
\* end (the sentry fails; the end sets failbit); text that is no number
\* stores 0 and sets failbit; an out-of-range number is consumed, stores
\* +-max() and sets failbit.  The result is the new stream state and v.
Extract(tokens, st, v) ==
    IF st.fail THEN [st |-> st, v |-> v]
    ELSE IF st.pos > Len(tokens) THEN [st |-> [st EXCEPT !.fail = TRUE], v |-> v]
    ELSE LET tok == tokens[st.pos]
         IN  CASE tok.kind = "num" ->
                    [st |-> [st EXCEPT !.pos = st.pos + 1], v |-> Fin(tok.val, 1)]
               [] tok.kind = "junk" ->
                    [st |-> [st EXCEPT !.fail = TRUE], v |-> Zero]
               [] tok.kind = "huge" ->
                    [st |-> [pos |-> st.pos + 1, fail |-> TRUE], v |-> DblMax(tok.val)]

\* the locals of operator>> starting from the target's coordinates
ReadLocals_FromTarget(p_Point) == p_Point

\* the locals x, y, z of operator>> as declared, for target p_Point
ReadLocals(p_Point) == Point(Zero, Zero, Zero)

\* operator>>(InputStream_t&, Point&): the stream state and the target after
\* the call.  Both branches of the if store x, y, z.
Read(tokens, st, p_Point) ==
    LET l == ReadLocals(p_Point)
        rx == Extract(tokens, st, l.m_X)
        ry == Extract(tokens, rx.st, l.m_Y)
        rz == Extract(tokens, ry.st, l.m_Z)
    IN  [st |-> rz.st, p_Point |-> Point(rx.v, ry.v, rz.v)]

----------------------------------------------------------------------------
(* Segment *)

\* Segment(p_Start, p_End)
Segment(s, e) == [m_Start |-> s, m_End |-> e]

\* the branch test of closestDistance: "segments are not parallel"
NotParallel(l_Denominator, q) == ExceedsPrecision(l_Denominator, q)

\* the non-parallel branch's l_S
SolveS(l_A, l_B, l_C, l_E, l_F, l_Denominator) ==
    DivS(SubS(MulS(l_B, l_F), MulS(l_C, l_E)), l_Denominator)

\* the non-parallel branch's l_T with a sign slip
SolveT_Plus(l_A, l_B, l_C, l_E, l_F, l_Denominator) ==
    DivS(AddS(MulS(l_A, l_F), MulS(l_B, l_C)), l_Denominator)

\* the non-parallel branch's l_T
SolveT(l_A, l_B, l_C, l_E, l_F, l_Denominator) ==
    DivS(SubS(MulS(l_A, l_F), MulS(l_B, l_C)), l_Denominator)

\* the parallel branch's l_T measured from the wrong side
ParallelT_Negated(l_F, l_E) == DivS(NegS(l_F), l_E)

\* the parallel branch's l_T
ParallelT(l_F, l_E) == DivS(l_F, l_E)

\* the locals of Segment::closestDistance at its return, for segments of the
\* grid 2^(-q)
Locals(p_Segment1, p_Segment2, q) ==
    LET start1 == Lift(p_Segment1.m_Start)
        start2 == Lift(p_Segment2.m_Start)
        l_D1 == PSub(Lift(p_Segment1.m_End), start1)
        l_D2 == PSub(Lift(p_Segment2.m_End), start2)
        l_R == PSub(start1, start2)
        l_A == Dot(l_D1, l_D1)
        l_E == Dot(l_D2, l_D2)
        l_F == Dot(l_D2, l_R)
        l_B == Dot(l_D1, l_D2)
        l_C == Dot(l_D1, l_R)
        l_Denominator == SubS(MulS(l_A, l_E), MulS(l_B, l_B))
        notParallel == NotParallel(l_Denominator, q)
        s0 == IF notParallel
              THEN SolveS(l_A, l_B, l_C, l_E, l_F, l_Denominator)
              ELSE Zero
        t0 == IF notParallel
              THEN SolveT(l_A, l_B, l_C, l_E, l_F, l_Denominator)
              ELSE ParallelT(l_F, l_E)
        l_S == Clamp(s0, sc_ParametricL, sc_ParametricH)
        l_T == Clamp(t0, sc_ParametricL, sc_ParametricH)
        l_ClosestPoint1 == PAdd(start1, PMul(l_D1, l_S))
        l_ClosestPoint2 == PAdd(start2, PMul(l_D2, l_T))
    IN  [l_D1 |-> l_D1, l_D2 |-> l_D2, l_R |-> l_R,
         l_A |-> l_A, l_E |-> l_E, l_F |-> l_F, l_B |-> l_B, l_C |-> l_C,
         l_Denominator |-> l_Denominator, notParallel |-> notParallel,
         s0 |-> s0, t0 |-> t0, l_S |-> l_S, l_T |-> l_T,
         l_ClosestPoint1 |-> l_ClosestPoint1,
         l_ClosestPoint2 |-> l_ClosestPoint2,
         result |-> Distance(l_ClosestPoint1, l_ClosestPoint2)]

\* Segment::closestDistance
closestDistance(p_Segment1, p_Segment2, q) ==
    Locals(p_Segment1, p_Segment2, q).result

----------------------------------------------------------------------------
(* Inputs *)

\* the coordinates of segment 1's end points, and the y and z coordinates of
\* segment 2's
Lateral == {0, 1}

GridPoints == {Point(x, y, z) : x \in Lateral, y \in Lateral, z \in Lateral}

GridSegments == {Segment(s, e) : s \in GridPoints, e \in GridPoints}

\* segment 2 is drawn from a grid longer in x, so that the closest points of
\* the two lines can lie beyond the end of segment 1
WidePoints == {Point(x, y, z) : x \in 0..MaxCoord, y \in Lateral, z \in Lateral}

WideSegments == {Segment(s, e) : s \in WidePoints, e \in WidePoints}

\* the segment pairs of the repository's SegmentTest cases
TestPairs ==
    { <<Segment(Point(0, 0, 0), Point(5, 5, 5)), Segment(Point(1, 1, 1), Point(8, 8, 8))>>,
      <<Segment(Point(0, 0, 0), Point(5, 0, 0)), Segment(Point(2, -2, 0), Point(2, 2, 0))>>,
      <<Segment(Point(0, 0, 0), Point(5, 0, 0)), Segment(Point(0, 3, 1), Point(5, 3, 1))>>,
      <<Segment(Point(0, 0, 0), Point(3, 3, 3)), Segment(Point(3, 3, 3), Point(6, 6, 6))>>,
      <<Segment(Point(0, 0, 0), Point(5, 5, 5)), Segment(Point(0, 0, 0), Point(5, 5, 5))>>,
      <<Segment(Point(0, 0, 0), Point(1, 1, 1)), Segment(Point(10, 10, 10), Point(15, 15, 15))>>,
      <<Segment(Point(5, 0, 0), Point(0, 0, 0)), Segment(Point(5, 3, 1), Point(0, 3, 1))>> }

Scales == {0, FineScale}

NoDistance == [radicand |-> [k |-> "none", n |-> 0, d |-> 1]]

----------------------------------------------------------------------------
(* The calling programs.  Each constructs its operands and makes one call;  *)
(* the variables of the other programs stay idle.                           *)

Idle == "idle"

(* construct two segments, call closestDistance *)

Init ==
    /\ pc = "start"
    /\ \/ seg1 \in GridSegments /\ seg2 \in WideSegments
       \/ \E p \in TestPairs : seg1 = p[1] /\ seg2 = p[2]
    /\ scale \in Scales
    /\ dist = NoDistance
    /\ pa = Idle /\ pb = Idle /\ cr = Idle
    /\ ea = Idle /\ eb = Idle /\ eq = Idle /\ ne = Idle
    /\ input = Idle /\ is = Idle /\ pt = Idle

CallClosestDistance ==
    /\ pc = "start"
    /\ dist' = closestDistance(seg1, seg2, scale)
    /\ pc' = "done"
    /\ UNCHANGED <<seg1, seg2, scale, crossVars, eqVars, readVars>>

Next == CallClosestDistance

Spec == Init /\ [][Next]_vars

(* construct two points, call cross *)

CrossCoords == (-MaxCross)..MaxCross

CrossPoints == {Point(x, y, z) : x \in CrossCoords, y \in CrossCoords, z \in CrossCoords}

InitCross ==
    /\ pc = "start"
    /\ pa \in CrossPoints
    /\ pb \in CrossPoints
    /\ cr = Idle
    /\ seg1 = Idle /\ seg2 = Idle /\ scale = Idle /\ dist = Idle
    /\ ea = Idle /\ eb = Idle /\ eq = Idle /\ ne = Idle
    /\ input = Idle /\ is = Idle /\ pt = Idle

CallCross ==
    /\ pc = "start"
    /\ cr' = Cross(Lift(pa), Lift(pb))
    /\ pc' = "done"
    /\ UNCHANGED <<pa, pb, segVars, eqVars, readVars>>

NextCross == CallCross

SpecCross == InitCross /\ [][NextCross]_vars

(* construct two points, compare them with == and with != *)

\* 0, the positive multiples of eps up to MaxUlp * eps, -1, and 1 + u * eps
UlpValues ==
    {Ulp(0, u, 0) : u \in 0..MaxUlp} \cup {Ulp(-1, 0, 0)}
        \cup {Ulp(1, u, 0) : u \in 0..MaxUlp}

UlpPoints == {Point(x, y, z) : x \in UlpValues, y \in UlpValues, z \in UlpValues}

InitEquals ==
    /\ pc = "start"
    /\ ea \in UlpPoints
    /\ eb \in UlpPoints
    /\ eq = Idle /\ ne = Idle
    /\ seg1 = Idle /\ seg2 = Idle /\ scale = Idle /\ dist = Idle
    /\ pa = Idle /\ pb = Idle /\ cr = Idle
    /\ input = Idle /\ is = Idle /\ pt = Idle

CallEquals ==
    /\ pc = "start"
    /\ eq' = Equals(ea, eb)
    /\ ne' = NotEquals(ea, eb)
    /\ pc' = "done"
    /\ UNCHANGED <<ea, eb, segVars, crossVars, readVars>>

NextEquals == CallEquals

SpecEquals == InitEquals /\ [][NextEquals]_vars

(* construct a point and a stream over some text, call operator>> *)

Tokens ==
    {[kind |-> "num", val |-> i] : i \in 1..MaxNum}
        \cup {[kind |-> "junk", val |-> 0]}
        \cup {[kind |-> "huge", val |-> 1], [kind |-> "huge", val |-> -1]}

Texts == UNION {[1..n -> Tokens] : n \in 0..MaxTokens}

\* the target before the call: Point(7, 8, 9)
OldPoint == Point(Fin(7, 1), Fin(8, 1), Fin(9, 1))

InitRead ==
    /\ pc = "start"
    /\ input \in [tokens : Texts, failed : BOOLEAN]
    /\ is = [pos |-> 1, fail |-> input.failed]
    /\ pt = OldPoint
    /\ seg1 = Idle /\ seg2 = Idle /\ scale = Idle /\ dist = Idle
    /\ pa = Idle /\ pb = Idle /\ cr = Idle
    /\ ea = Idle /\ eb = Idle /\ eq = Idle /\ ne = Idle

CallRead ==
    /\ pc = "start"
    /\ LET r == Read(input.tokens, is, pt)
       IN  is' = r.st /\ pt' = r.p_Point
    /\ pc' = "done"
    /\ UNCHANGED <<input, segVars, crossVars, eqVars>>

NextRead == CallRead

SpecRead == InitRead /\ [][NextRead]_vars

----------------------------------------------------------------------------
(* Properties of Segment::closestDistance *)

\* the locals of the call the program made
L == Locals(seg1, seg2, scale)

\* reverse(s): start and end swapped
Reverse(s) == Segment(s.m_End, s.m_Start)

IsFinite(x) == x.k = "fin"

\* the point start + u * (end - start) of the line through a segment
PointAt(s, u) ==
    PAdd(Lift(s.m_Start), PMul(PSub(Lift(s.m_End), Lift(s.m_Start)), u))

\* the smaller of two distances (neither NaN)
MinDist(x, y) == IF LtS(y.radicand, x.radicand) THEN y ELSE x

\* the distance from point p (Scalar_t coordinates) to the nearest point of
\* segment s, s not zero-length: the least of the distances to the two end
\* points and, when it falls inside the segment, to the foot of the
\* perpendicular from p
PointSegmentDistance(p, s) ==
    LET d == PSub(Lift(s.m_End), Lift(s.m_Start))
        u == DivS(Dot(d, PSub(p, Lift(s.m_Start))), Dot(d, d))
        ends == MinDist(Distance(p, Lift(s.m_Start)), Distance(p, Lift(s.m_End)))
    IN  IF LeS(Zero, u) /\ LeS(u, Fin(1, 1))
        THEN MinDist(ends, Distance(p, PointAt(s, u)))
        ELSE ends

\* C1: for all segments s1, s2 closestDistance(s1, s2) equals
\* closestDistance(s2, s1)
C1_ArgumentSymmetry ==
    pc = "done" => dist = closestDistance(seg2, seg1, scale)

\* C2: closestDistance(reverse(s1), reverse(s2)) equals closestDistance(s1, s2)
C2_ReversalInvariance ==
    pc = "done" => dist = closestDistance(Reverse(seg1), Reverse(seg2), scale)

\* C3: closestDistance returns a finite, non-negative value for every pair of
\* segments, zero-length ones included
C3_FiniteNonNegative ==
    pc = "done" => IsFinite(dist.radicand) /\ dist.radicand.n >= 0

\* integer cross product and dot product of grid vectors
ICross(v, w) ==
    Point(v.m_Y * w.m_Z - v.m_Z * w.m_Y,
          v.m_Z * w.m_X - v.m_X * w.m_Z,
          v.m_X * w.m_Y - v.m_Y * w.m_X)

IDot(v, w) == v.m_X * w.m_X + v.m_Y * w.m_Y + v.m_Z * w.m_Z

IDiff(p, o) == Point(p.m_X - o.m_X, p.m_Y - o.m_Y, p.m_Z - o.m_Z)

IZero == Point(0, 0, 0)

\* two segments of non-zero length on one supporting line
Collinear(s1, s2) ==
    LET d1 == IDiff(s1.m_End, s1.m_Start)
        d2 == IDiff(s2.m_End, s2.m_Start)
    IN  /\ d1 # IZero
        /\ d2 # IZero
        /\ ICross(d1, d2) = IZero
        /\ ICross(d1, IDiff(s2.m_Start, s1.m_Start)) = IZero

\* collinear segments with a point in common: along d1, segment 1 covers
\* [0, d1.d1] and segment 2 the interval between its projected end points
CollinearTouching(s1, s2) ==
    /\ Collinear(s1, s2)
    /\ LET d1 == IDiff(s1.m_End, s1.m_Start)
           u == IDot(d1, IDiff(s2.m_Start, s1.m_Start))
           v == IDot(d1, IDiff(s2.m_End, s1.m_Start))
           lo == IF u < v THEN u ELSE v
           hi == IF u < v THEN v ELSE u
       IN  lo <= IDot(d1, d1) /\ hi >= 0

\* C4: collinear segments that have a point in common are at distance 0
C4_CollinearTouchingIsZero ==
    (pc = "done" /\ CollinearTouching(seg1, seg2)) => dist = SqrtS(Zero)

\* the segments of TEST(SegmentTest, SkewSegments)
SkewCase ==
    /\ pc = "done"
    /\ scale = 0
    /\ seg1 = Segment(Point(0, 0, 0), Point(5, 0, 0))
    /\ seg2 = Segment(Point(0, 3, 1), Point(5, 3, 1))

DistantCase ==
    /\ pc = "done"
    /\ scale = 0
    /\ seg1 = Segment(Point(0, 0, 0), Point(1, 1, 1))
    /\ seg2 = Segment(Point(10, 10, 10), Point(15, 15, 15))

\* the call took the parallel branch with segment 2 not zero-length
ParallelCase == pc = "done" /\ ~L.notParallel /\ L.l_E # Zero

LineDistance(u, v) == Distance(PointAt(seg1, u), PointAt(seg2, v))

\* sampled parameters on a line and on a segment ([0, 1])
LineParams == {Fin(i, SampleDen) : i \in (-1)..(SampleDen + 1)}

SegmentParams == {Fin(i, SampleDen) : i \in 0..SampleDen}

InUnit(u) == LeS(Zero, u) /\ LeS(u, Fin(1, 1))

\* the call took the non-parallel branch
NonParallelCase == pc = "done" /\ L.notParallel

\* the segments of TEST(SegmentTest, PerpendicularSegments)
PerpendicularCase ==
    /\ pc = "done"
    /\ scale = 0
    /\ seg1 = Segment(Point(0, 0, 0), Point(5, 0, 0))
    /\ seg2 = Segment(Point(2, -2, 0), Point(2, 2, 0))

\* C10: in the non-parallel branch s = (b*f - c*e)/den and t = (a*f - b*c)/den
\* minimise the distance between start1 + s*d1 and start2 + t*d2 over the two
\* lines (the connecting vector is perpendicular to both directions, and no
\* sampled pair of points of the lines, those of the segments among them, is
\* closer); when both lie in [0, 1] the result is that minimum, and it is 0
\* when the segments meet
C10_NonParallelBranch ==
    LET loc == Locals(seg1, seg2, scale)
        w == PSub(PointAt(seg1, loc.s0), PointAt(seg2, loc.t0))
        best == Distance(PointAt(seg1, loc.s0), PointAt(seg2, loc.t0))
        on1 == [u \in LineParams |-> PointAt(seg1, u)]
        on2 == [v \in LineParams |-> PointAt(seg2, v)]
    IN  /\ (pc = "done" /\ loc.notParallel) =>
              /\ loc.s0 = DivS(SubS(MulS(loc.l_B, loc.l_F), MulS(loc.l_C, loc.l_E)),
                               loc.l_Denominator)
              /\ loc.t0 = DivS(SubS(MulS(loc.l_A, loc.l_F), MulS(loc.l_B, loc.l_C)),
                               loc.l_Denominator)
              /\ Dot(w, loc.l_D1) = Zero
              /\ Dot(w, loc.l_D2) = Zero
              /\ \A u \in LineParams, v \in LineParams :
                    LeS(best.radicand, Distance(on1[u], on2[v]).radicand)
              /\ (InUnit(loc.s0) /\ InUnit(loc.t0)) =>
                    /\ dist = best
                    /\ (\E u \in SegmentParams, v \in SegmentParams :
                           on1[u] = on2[v]) => dist = SqrtS(Zero)
        /\ PerpendicularCase => NonParallelCase /\ dist = SqrtS(Zero)

\* skew segments whose closest points lie strictly inside both, at a
\* distance that is not 0
C10_Witness ==
    /\ NonParallelCase
    /\ LtS(Zero, L.s0) /\ LtS(L.s0, Fin(1, 1))
    /\ LtS(Zero, L.t0) /\ LtS(L.t0, Fin(1, 1))
    /\ dist # SqrtS(Zero)

\* the distance from point p to the nearest point of segment s, zero-length
\* segments included
PointToSegment(p, s) ==
    IF s.m_Start = s.m_End THEN Distance(p, Lift(s.m_Start))
    ELSE PointSegmentDistance(p, s)

\* the true minimum distance between segments s1 and s2.  The squared
\* distance is a convex quadratic in the two parameters, so over the unit
\* square its minimum is at the stationary point of the two lines, when there
\* is one and it lies in the square, or else on the boundary, where one of
\* the two points is an end point: the least of the four end-point-to-segment
\* distances and of the distance at that stationary point
TrueMinimum(s1, s2) ==
    LET d1 == PSub(Lift(s1.m_End), Lift(s1.m_Start))
        d2 == PSub(Lift(s2.m_End), Lift(s2.m_Start))
        r == PSub(Lift(s1.m_Start), Lift(s2.m_Start))
        a == Dot(d1, d1)
        b == Dot(d1, d2)
        c == Dot(d1, r)
        e == Dot(d2, d2)
        f == Dot(d2, r)
        den == SubS(MulS(a, e), MulS(b, b))
        u == DivS(SubS(MulS(b, f), MulS(c, e)), den)
        v == DivS(SubS(MulS(a, f), MulS(b, c)), den)
        ends == MinDist(MinDist(PointToSegment(Lift(s1.m_Start), s2),
                                PointToSegment(Lift(s1.m_End), s2)),
                        MinDist(PointToSegment(Lift(s2.m_Start), s1),
                                PointToSegment(Lift(s2.m_End), s1)))
    IN  IF den # Zero /\ InUnit(u) /\ InUnit(v)
        THEN MinDist(ends, Distance(PointAt(s1, u), PointAt(s2, v)))
        ELSE ends

----------------------------------------------------------------------------
(* Properties of Point *)

\* token i of the text was parsed: the stream had not failed at the call and
\* tokens 1..i are numbers a double holds
Parsed(i) ==
    /\ ~input.failed
    /\ i <= Len(input.tokens)
    /\ \A j \in 1..i : input.tokens[j].kind = "num"

\* field i (1 = x, 2 = y, 3 = z) as C6 states it: the parsed value, or 0 at
\* and after the failure
LenientField(i) == IF Parsed(i) THEN Fin(input.tokens[i].val, 1) ELSE Zero

\* the extraction of field i failed on a number too large for a double
FailedOutOfRange(i) ==
    /\ ~input.failed
    /\ i <= Len(input.tokens)
    /\ \A j \in 1..(i - 1) : input.tokens[j].kind = "num"
    /\ input.tokens[i].kind = "huge"

\* field i as the code leaves it
StoredField(i) ==
    IF FailedOutOfRange(i) THEN DblMax(input.tokens[i].val) ELSE LenientField(i)

\* C6 as stated: after operator>> the point holds the values parsed before the
\* failure and 0 for every field at or after the failure; the previous
\* coordinates never survive
C6_ZeroAtAndAfterFailure ==
    pc = "done" => pt = Point(LenientField(1), LenientField(2), LenientField(3))

\* C6 amended: after operator>> the point holds the values parsed before the
\* failure, 0 for every field after the failure, and at the failing field 0,
\* or +-numeric_limits<double>::max() when the text there is a number out of
\* the range of double; the stream has failed exactly when a field was not
\* parsed; the previous coordinates never survive
C6_DefaultsExceptOutOfRange ==
    pc = "done" =>
        /\ pt = Point(StoredField(1), StoredField(2), StoredField(3))
        /\ is.fail = ~Parsed(3)
        /\ pt.m_X # OldPoint.m_X /\ pt.m_Y # OldPoint.m_Y /\ pt.m_Z # OldPoint.m_Z

\* partial input: one number, then the end of the text
C6_Witness ==
    /\ pc = "done"
    /\ ~input.failed
    /\ Len(input.tokens) = 1
    /\ input.tokens[1].kind = "num"
    /\ is.fail
    /\ pt = Point(Fin(input.tokens[1].val, 1), Zero, Zero)

\* C7: a.cross(b) is (ay*bz - az*by, az*bx - ax*bz, ax*by - ay*bx), each
\* coordinate is the negation of the same coordinate of b.cross(a), and the
\* call modifies neither operand
C7_CrossProduct ==
    /\ [](pc = "done" =>
            /\ cr = Lift(Point(pa.m_Y * pb.m_Z - pa.m_Z * pb.m_Y,
                               pa.m_Z * pb.m_X - pa.m_X * pb.m_Z,
                               pa.m_X * pb.m_Y - pa.m_Y * pb.m_X))
            /\ LET rev == Cross(Lift(pb), Lift(pa))
               IN  /\ cr.m_X = NegS(rev.m_X)
                   /\ cr.m_Y = NegS(rev.m_Y)
                   /\ cr.m_Z = NegS(rev.m_Z))
    /\ [][pa' = pa /\ pb' = pb]_vars

\* TEST_F(PointTest, CrossProduct): (1,0,0) x (0,1,0) = (0,0,1)
C7_Witness ==
    /\ pc = "done"
    /\ pa = Point(1, 0, 0)
    /\ pb = Point(0, 1, 0)
    /\ cr = Lift(Point(0, 0, 1))

UZero == Ulp(0, 0, 0)

\* if either value is exactly 0, both are
BothZeroIfEither(a, b) == (a = UZero \/ b = UZero) => (a = UZero /\ b = UZero)

\* among the operands drawn, the values within the relative tolerance of each
\* other: identical ones, and values from 1 upward one epsilon apart
WithinRelativeTolerance(a, b) ==
    \/ a = b
    \/ a.w = 1 /\ b.w = 1 /\ a.u - b.u \in {-1, 1}

\* C8: equality is relative per coordinate, so against 0 it is exact: if a
\* coordinate of one point is exactly 0, == is true only if the same
\* coordinate of the other is exactly 0; and != is the negation of ==
C8_RelativeEquality ==
    pc = "done" =>
        /\ eq => /\ BothZeroIfEither(ea.m_X, eb.m_X)
                 /\ BothZeroIfEither(ea.m_Y, eb.m_Y)
                 /\ BothZeroIfEither(ea.m_Z, eb.m_Z)
        /\ eq <=> /\ WithinRelativeTolerance(ea.m_X, eb.m_X)
                  /\ WithinRelativeTolerance(ea.m_Y, eb.m_Y)
                  /\ WithinRelativeTolerance(ea.m_Z, eb.m_Z)
        /\ ne = ~eq

\* 0 against epsilon in x, the other coordinates identical: not equal
C8_Witness ==
    /\ pc = "done"
    /\ ea.m_X = UZero
    /\ eb.m_X = Ulp(0, 1, 0)
    /\ ea.m_Y = eb.m_Y
    /\ ea.m_Z = eb.m_Z
    /\ ~eq
    /\ ne

====
